---- MODULE Spec2Model ----
(***************************************************************************)
(* Model of package cache (mrmorphic/cache, cache.go): a map of entries    *)
(* guarded by a sync.Mutex, caller goroutines running Store,               *)
(* StorePerpetual, Delete, Get and Free, and the goroutine started by      *)
(* startTimer that sweeps the map on every tick of a one-second ticker.    *)
(*                                                                         *)
(* Time is counted in ticker periods.  A *CacheEntry is a record carrying  *)
(* the identity (id) of the object it points to: an assignment through the *)
(* pointer updates every record with that id.  The variables passed,       *)
(* lastMut and ret and the fields arg, d, t0, ctx and regens are history:  *)
(* no action's guard reads them.  One caller goroutine runs beside the     *)
(* cache's own.                                                            *)
(***************************************************************************)
EXTENDS Integers, Sequences, FiniteSets, TLC

\* ---------------------------------------------------------------- bounds
MaxTime == 2
MaxAlloc == 2

\* ---------------------------------------------------------------- inputs
Callers == {"t1"}
Keys == {"k1", "k2"}
Gens == {"g1"}
Lits == {<<"lit", 1>>}
\* lifetimes passed to Store, and to StorePerpetual (a refresh period)
Durations == {-1, 0, 1}
Periods == {1}

Bg == "bg"
NoOne == "none"
Nil == <<"nil", 0>>
NoFn == "nofn"

\* time.NewTicker(time.Second): the ticker period, in clock units
TickerPeriod == 1

VARIABLES
    now,        \* the wall clock, time.Now()
    tickC,      \* c.ticker.C holds a tick (the channel's buffer is one tick)
    mutex,      \* the embedded sync.Mutex: NoOne when unlocked, else who locked it
    entries,    \* c.entries: key -> *CacheEntry
    allocs,     \* how many CacheEntry objects have been allocated
    genCount,   \* how often each ValueGenerator has been called
    pc,         \* each caller goroutine's position
    loc,        \* each caller goroutine's locals
    ret,        \* what the Get that returned in the last step returned, if one did
    bgpc,       \* the startTimer goroutine's position
    n,          \* the sweep's n := time.Now().UnixNano()
    visited,    \* the keys the sweep's range loop has produced
    cur,        \* expire's parameters key, entry
    nv,         \* expire's nv
    crashed,    \* the runtime has thrown a fatal error
    passed,     \* keys passed to Store or StorePerpetual so far
    lastMut     \* per key, the last caller mutation of the map that took effect

vars == <<now, tickC, mutex, entries, allocs, genCount, pc, loc, ret, bgpc, n,
          visited, cur, nv, crashed, passed, lastMut>>

bgvars == <<bgpc, n, visited, cur, nv>>

\* ---------------------------------------------------------------- helpers
\* the nil *CacheEntry
NoEntry == [id |-> 0, value |-> Nil, expiry |-> 0, perpetual |-> FALSE,
            fn |-> NoFn, lifetime |-> 0, regens |-> 0]

\* (mutant) every new entry is flagged perpetual
NewEntryAllPerpetual(v, e, p, fn, d) ==
    [id |-> allocs + 1, value |-> v, expiry |-> e, perpetual |-> TRUE, fn |-> fn,
     lifetime |-> d, regens |-> 0]

\* &CacheEntry{...}: a new object
NewEntry(v, e, p, fn, d) ==
    [id |-> allocs + 1, value |-> v, expiry |-> e, perpetual |-> p, fn |-> fn,
     lifetime |-> d, regens |-> 0]

\* what a Get saw at its lookup (history only): the kind of the last caller
\* mutation of its key ("dirty" when another one was under way), the value
\* of the entry that mutation stored or removed, whether that entry's
\* expiry was still ahead and the lifetime that mutation was given
NoCtx == [kind |-> "none", want |-> Nil, fresh |-> FALSE, lifetime |-> 0]

\* arg, d and t0 are the value and the lifetime the caller passed to Store or
\* StorePerpetual and the clock when it was called (history only)
NoLoc == [key |-> "k1", entry |-> NoEntry, arg |-> Nil, d |-> 0, t0 |-> 0,
          ctx |-> NoCtx]

NoRet == [t |-> NoOne, key |-> "k1", result |-> Nil, regens |-> 0, ctx |-> NoCtx]

NoCur == [k |-> "k1", v |-> NoEntry]

\* kind: "store", "sp" or "delete"; want: the value passed to Store, first
\* generated for StorePerpetual, or removed by Delete; expiry: that entry's;
\* lifetime: the lifetime passed; over: the kind of the entry that was
\* replaced; late: the entry was inserted at or after its expiry; started: it
\* was, and since then a sweep has begun by reading the clock
NoMut == [kind |-> "none", want |-> Nil, expiry |-> 0, lifetime |-> 0,
          over |-> "none", late |-> FALSE, started |-> FALSE]

\* the kind of the entry a map slot holds
KindOf(e) == IF e.id = 0 THEN "none" ELSE IF e.perpetual THEN "sp" ELSE "store"

\* the record of an insertion by caller t (history only)
Inserted(t, kind, want) ==
    [kind |-> kind, want |-> want, expiry |-> loc[t].entry.expiry,
     lifetime |-> loc[t].d, over |-> KindOf(entries[loc[t].key]),
     late |-> loc[t].entry.expiry <= now, started |-> FALSE]

\* a sweep reads the clock (history only)
SweepStarted == [k \in Keys |-> [lastMut[k] EXCEPT !.started = lastMut[k].late]]

\* the ValueGenerator's result on its i-th call: a generator is not constant
GenValue(g, i) == <<g, i>>

\* time.Now().Add(lifetime)
Add(t, d) == t + d

\* (mutant) the comparison of line 125 turned around
ExpiredFlipped(e, sweepN) == e >= sweepN

\* line 125: e <= n
Expired(e, sweepN) == e <= sweepN

\* a caller other than t is between invoking and finishing a mutation of key k
MutPcs == {"store_lock", "store_write", "sp_gen", "sp_lock", "sp_write", "delete"}

Pending(t, k) ==
    \E u \in Callers \ {t} : pc[u] \in MutPcs /\ loc[u].key = k

\* a lock-free map write by self overlaps another goroutine's use of the map:
\* someone else holds the mutex, or another goroutine is inside Delete
MapRace(self) ==
    \/ mutex \notin {NoOne, self}
    \/ \E u \in Callers \ {self} : pc[u] = "delete"

\* an operation that returns nothing returns
Return(t) ==
    /\ pc' = [pc EXCEPT ![t] = "idle"]
    /\ loc' = [loc EXCEPT ![t] = NoLoc]

Invoke(t, k, e, v, d, to) ==
    /\ pc' = [pc EXCEPT ![t] = to]
    /\ loc' = [loc EXCEPT ![t] = [key |-> k, entry |-> e, arg |-> v, d |-> d,
                                  t0 |-> IF to \in {"store_lock", "sp_gen"}
                                         THEN now ELSE 0,
                                  ctx |-> NoCtx]]

\* ---------------------------------------------------------------- Init
\* NewCache: an empty map, the ticker and the goroutine started
Init ==
    /\ now = 0
    /\ tickC = FALSE
    /\ mutex = NoOne
    /\ entries = [k \in Keys |-> NoEntry]
    /\ allocs = 0
    /\ genCount = [g \in Gens |-> 0]
    /\ pc = [t \in Callers |-> "idle"]
    /\ loc = [t \in Callers |-> NoLoc]
    /\ ret = NoRet
    /\ bgpc = "select"
    /\ n = 0
    /\ visited = {}
    /\ cur = NoCur
    /\ nv = Nil
    /\ crashed = FALSE
    /\ passed = {}
    /\ lastMut = [k \in Keys |-> NoMut]

\* ---------------------------------------------------------------- callers
\* c.Lock() returning: the mutex is not reentrant and knows no owner
Acquire(t) ==
    /\ ~crashed
    /\ pc[t] \in {"store_lock", "sp_lock", "get_lock"}
    /\ mutex = NoOne
    /\ mutex' = t
    /\ pc' = [pc EXCEPT ![t] = CASE pc[t] = "store_lock" -> "store_write"
                                 [] pc[t] = "sp_lock" -> "sp_write"
                                 [] pc[t] = "get_lock" -> "get_lookup"]
    /\ ret' = NoRet
    /\ UNCHANGED <<now, tickC, entries, allocs, genCount, loc, bgvars, crashed,
                   passed, lastMut>>

\* (mutant) the entry is stored under every key
MapStoreEveryKey(k, e) == entries' = [kk \in Keys |-> e]

\* c.entries[key] = entry
MapStore(k, e) == entries' = [entries EXCEPT ![k] = e]

\* Store, line 75: the entry is built from time.Now() before c.Lock()
Store(t, k, v, d) ==
    /\ ~crashed
    /\ pc[t] = "idle"
    /\ allocs < MaxAlloc
    /\ allocs' = allocs + 1
    /\ Invoke(t, k, NewEntry(v, Add(now, d), FALSE, NoFn, 0), v, d, "store_lock")
    /\ passed' = passed \cup {k}
    /\ ret' = NoRet
    /\ UNCHANGED <<now, tickC, mutex, entries, genCount, bgvars, crashed, lastMut>>

\* Store, lines 77-78: c.entries[key] = entry; c.Unlock()
StoreWrite(t) ==
    /\ ~crashed
    /\ pc[t] = "store_write"
    /\ MapStore(loc[t].key, loc[t].entry)
    /\ mutex' = NoOne
    /\ lastMut' = [lastMut EXCEPT ![loc[t].key] = Inserted(t, "store", loc[t].arg)]
    /\ Return(t)
    /\ ret' = NoRet
    /\ UNCHANGED <<now, tickC, allocs, genCount, bgvars, crashed, passed>>

\* (mutant) StorePerpetual locks the mutex before it calls fn
StorePerpetualLockFirst(t, k, g, d) ==
    /\ ~crashed
    /\ pc[t] = "idle"
    /\ allocs < MaxAlloc
    /\ mutex = NoOne
    /\ mutex' = t
    /\ allocs' = allocs + 1
    /\ Invoke(t, k, NewEntry(Nil, Add(now, d), TRUE, g, d), Nil, d, "sp_gen")
    /\ passed' = passed \cup {k}
    /\ ret' = NoRet
    /\ UNCHANGED <<now, tickC, entries, genCount, bgvars, crashed, lastMut>>

\* StorePerpetual, line 88 and the call of fn on line 89
StorePerpetual(t, k, g, d) ==
    /\ ~crashed
    /\ pc[t] = "idle"
    /\ allocs < MaxAlloc
    /\ allocs' = allocs + 1
    /\ Invoke(t, k, NewEntry(Nil, Add(now, d), TRUE, g, d), Nil, d, "sp_gen")
    /\ passed' = passed \cup {k}
    /\ ret' = NoRet
    /\ UNCHANGED <<now, tickC, mutex, entries, genCount, bgvars, crashed, lastMut>>

\* (mutant) line 89 left out: the entry is inserted with no value yet
StorePerpetualNoGen(t) ==
    /\ ~crashed
    /\ pc[t] = "sp_gen"
    /\ pc' = [pc EXCEPT ![t] = "sp_lock"]
    /\ ret' = NoRet
    /\ UNCHANGED <<now, tickC, mutex, entries, allocs, genCount, loc, bgvars,
                   crashed, passed, lastMut>>

\* StorePerpetual, line 89: fn returns and entry.value is set; then c.Lock()
StorePerpetualGen(t) ==
    /\ ~crashed
    /\ pc[t] = "sp_gen"
    /\ LET g == loc[t].entry.fn
       IN /\ genCount' = [genCount EXCEPT ![g] = @ + 1]
          /\ loc' = [loc EXCEPT ![t].entry.value = GenValue(g, genCount[g] + 1)]
    /\ pc' = [pc EXCEPT ![t] = "sp_lock"]
    /\ ret' = NoRet
    /\ UNCHANGED <<now, tickC, mutex, entries, allocs, bgvars, crashed, passed,
                   lastMut>>

\* StorePerpetual, lines 91-92: c.entries[key] = entry; c.Unlock()
StorePerpetualWrite(t) ==
    /\ ~crashed
    /\ pc[t] = "sp_write"
    /\ MapStore(loc[t].key, loc[t].entry)
    /\ mutex' = NoOne
    /\ lastMut' = [lastMut EXCEPT ![loc[t].key] =
                                         Inserted(t, "sp", loc[t].entry.value)]
    /\ Return(t)
    /\ ret' = NoRet
    /\ UNCHANGED <<now, tickC, allocs, genCount, bgvars, crashed, passed>>

\* (mutant) a perpetual entry survives delete
MapDeleteNonPerpetual(k) ==
    entries' = IF entries[k].perpetual THEN entries
               ELSE [entries EXCEPT ![k] = NoEntry]

\* delete(c.entries, key): the builtin
MapDelete(k) == entries' = [entries EXCEPT ![k] = NoEntry]

\* Delete is called
Delete(t, k) ==
    /\ ~crashed
    /\ pc[t] = "idle"
    /\ Invoke(t, k, NoEntry, Nil, 0, "delete")
    /\ ret' = NoRet
    /\ UNCHANGED <<now, tickC, mutex, entries, allocs, genCount, bgvars, crashed,
                   passed, lastMut>>

\* Delete, line 98: delete(c.entries, key), with no c.Lock(). When the write
\* overlaps another goroutine's use of the map it is a data race: it either
\* goes through or the runtime throws "concurrent map ..." and the program dies
DeleteMap(t) ==
    /\ ~crashed
    /\ pc[t] = "delete"
    /\ \/ /\ MapDelete(loc[t].key)
          /\ lastMut' = [lastMut EXCEPT ![loc[t].key] =
                                         [NoMut EXCEPT !.kind = "delete",
                                                       !.want = entries[loc[t].key].value]]
          /\ Return(t)
          /\ UNCHANGED crashed
       \/ /\ MapRace(t)
          /\ crashed' = TRUE
          /\ UNCHANGED <<entries, lastMut, pc, loc>>
    /\ ret' = NoRet
    /\ UNCHANGED <<now, tickC, mutex, allocs, genCount, bgvars, passed>>

\* Get is called: c.Lock() is requested
Get(t, k) ==
    /\ ~crashed
    /\ pc[t] = "idle"
    /\ Invoke(t, k, NoEntry, Nil, 0, "get_lock")
    /\ ret' = NoRet
    /\ UNCHANGED <<now, tickC, mutex, entries, allocs, genCount, bgvars, crashed,
                   passed, lastMut>>

\* (mutant) a Get that finds an expired perpetual entry calls its generator
GetLookupRegenerating(t) ==
    /\ ~crashed
    /\ pc[t] = "get_lookup"
    /\ LET k == loc[t].key
           ctx == [kind |-> IF Pending(t, k) THEN "dirty" ELSE lastMut[k].kind,
                   want |-> lastMut[k].want,
                   fresh |-> now < lastMut[k].expiry,
                   lifetime |-> lastMut[k].lifetime]
       IN /\ loc' = [loc EXCEPT ![t].entry = entries[k], ![t].ctx = ctx]
          /\ genCount' = IF entries[k].perpetual /\ entries[k].expiry <= now
                         THEN [genCount EXCEPT ![entries[k].fn] = @ + 1]
                         ELSE genCount
    /\ mutex' = NoOne
    /\ pc' = [pc EXCEPT ![t] = "get_ret"]
    /\ ret' = NoRet
    /\ UNCHANGED <<now, tickC, entries, allocs, bgvars, crashed, passed, lastMut>>

\* Get, lines 104-105: entry := c.entries[key]; c.Unlock()
GetLookup(t) ==
    /\ ~crashed
    /\ pc[t] = "get_lookup"
    /\ LET k == loc[t].key
           ctx == [kind |-> IF Pending(t, k) THEN "dirty" ELSE lastMut[k].kind,
                   want |-> lastMut[k].want,
                   fresh |-> now < lastMut[k].expiry,
                   lifetime |-> lastMut[k].lifetime]
       IN loc' = [loc EXCEPT ![t].entry = entries[k], ![t].ctx = ctx]
    /\ mutex' = NoOne
    /\ pc' = [pc EXCEPT ![t] = "get_ret"]
    /\ ret' = NoRet
    /\ UNCHANGED <<now, tickC, entries, allocs, genCount, bgvars, crashed, passed,
                   lastMut>>

\* Get, lines 106-109: nil for no entry, else entry.value, read without the lock
GetResult(e) == IF e.id = 0 THEN Nil ELSE e.value

GetReturn(t) ==
    /\ ~crashed
    /\ pc[t] = "get_ret"
    /\ ret' = [t |-> t, key |-> loc[t].key, result |-> GetResult(loc[t].entry),
               regens |-> loc[t].entry.regens, ctx |-> loc[t].ctx]
    /\ Return(t)
    /\ UNCHANGED <<now, tickC, mutex, entries, allocs, genCount, bgvars, crashed,
                   passed, lastMut>>

\* Free, line 69: c.quit <- true blocks until the goroutine receives. Callers
\* call it at most once per Cache.
Free(t) ==
    /\ ~crashed
    /\ pc[t] = "idle"
    /\ bgpc # "stopped"
    /\ \A u \in Callers : pc[u] # "free_send"
    /\ Invoke(t, "k1", NoEntry, Nil, 0, "free_send")
    /\ ret' = NoRet
    /\ UNCHANGED <<now, tickC, mutex, entries, allocs, genCount, bgvars, crashed,
                   passed, lastMut>>

\* ---------------------------------------------------------------- the clock
\* one ticker period passes; the ticker sends unless it was stopped, and a
\* tick that finds the channel full is dropped
Tick ==
    /\ ~crashed
    /\ now < MaxTime
    /\ now' = now + TickerPeriod
    /\ tickC' = (tickC \/ bgpc # "stopped")
    /\ ret' = NoRet
    /\ UNCHANGED <<mutex, entries, allocs, genCount, pc, loc, bgvars, crashed,
                   passed, lastMut>>

\* ---------------------------------------------------------------- the sweep
\* the keys the range loop can still produce
Unvisited == {k \in Keys : k \notin visited /\ entries[k].id # 0}

\* (mutant) the goroutine goes on receiving ticks after it has received quit
BgTickAfterStop ==
    /\ ~crashed
    /\ bgpc \in {"select", "stopped"}
    /\ tickC
    /\ tickC' = FALSE
    /\ n' = now
    /\ bgpc' = "lock"
    /\ lastMut' = SweepStarted
    /\ ret' = NoRet
    /\ UNCHANGED <<now, mutex, entries, allocs, genCount, pc, loc, visited, cur,
                   nv, crashed, passed>>

\* startTimer, lines 120-122: a tick is received, n is read, c.Lock() is requested
BgTick ==
    /\ ~crashed
    /\ bgpc = "select"
    /\ tickC
    /\ tickC' = FALSE
    /\ n' = now
    /\ bgpc' = "lock"
    /\ lastMut' = SweepStarted
    /\ ret' = NoRet
    /\ UNCHANGED <<now, mutex, entries, allocs, genCount, pc, loc, visited, cur,
                   nv, crashed, passed>>

\* expire, lines 149-152, through the pointer entry: entry.value = nv;
\* entry.expiry = time.Now().Add(entry.lifetime)
Regenerated(e, id, v) ==
    IF e.id = id
    THEN [e EXCEPT !.value = v, !.expiry = Add(now, e.lifetime), !.regens = @ + 1]
    ELSE e

\* c.Lock() returning in the goroutine: on line 122 the sweep begins; on line
\* 146, inside expire, lines 146-154 follow up to c.Unlock()
BgLock ==
    /\ ~crashed
    /\ bgpc \in {"lock", "exp_lock"}
    /\ mutex = NoOne
    /\ IF bgpc = "lock"
       THEN /\ mutex' = Bg
            /\ bgpc' = "range"
            /\ visited' = {}
            /\ UNCHANGED <<entries, loc, cur, nv>>
       ELSE /\ entries' = [k \in Keys |-> Regenerated(entries[k], cur.v.id, nv)]
            /\ loc' = [t \in Callers |->
                         [loc[t] EXCEPT !.entry = Regenerated(@, cur.v.id, nv)]]
            /\ mutex' = NoOne
            /\ bgpc' = "range"
            /\ cur' = NoCur
            /\ nv' = Nil
            /\ UNCHANGED visited
    /\ ret' = NoRet
    /\ UNCHANGED <<now, tickC, allocs, genCount, pc, n, crashed, passed, lastMut>>

\* lines 123-125: the loop produces k, v (in no fixed order) and e > n
SweepSkip(k) ==
    /\ ~crashed
    /\ bgpc = "range"
    /\ k \in Unvisited
    /\ ~Expired(entries[k].expiry, n)
    /\ visited' = visited \cup {k}
    /\ ret' = NoRet
    /\ UNCHANGED <<now, tickC, mutex, entries, allocs, genCount, pc, loc, bgpc,
                   n, cur, nv, crashed, passed, lastMut>>

\* lines 123-126 and expire, line 157: an expired entry that is not perpetual:
\* c.Delete(key), which races with a caller inside Delete
SweepEvict(k) ==
    /\ ~crashed
    /\ bgpc = "range"
    /\ k \in Unvisited
    /\ Expired(entries[k].expiry, n)
    /\ ~entries[k].perpetual
    /\ \/ /\ MapDelete(k)
          /\ visited' = visited \cup {k}
          /\ UNCHANGED crashed
       \/ /\ MapRace(Bg)
          /\ crashed' = TRUE
          /\ UNCHANGED <<entries, visited>>
    /\ ret' = NoRet
    /\ UNCHANGED <<now, tickC, mutex, allocs, genCount, pc, loc, bgpc, n, cur,
                   nv, passed, lastMut>>

\* (mutant) the stale value is cleared before entry.fn() is called
SweepRegenInvalidating(k) ==
    /\ ~crashed
    /\ bgpc = "range"
    /\ k \in Unvisited
    /\ Expired(entries[k].expiry, n)
    /\ entries[k].perpetual
    /\ visited' = visited \cup {k}
    /\ cur' = [k |-> k, v |-> entries[k]]
    /\ bgpc' = "exp_gen"
    /\ entries' = [entries EXCEPT ![k].value = Nil]
    /\ loc' = [t \in Callers |->
                 IF loc[t].entry.id = entries[k].id
                 THEN [loc[t] EXCEPT !.entry.value = Nil] ELSE loc[t]]
    /\ ret' = NoRet
    /\ UNCHANGED <<now, tickC, mutex, allocs, genCount, pc, n, nv, crashed,
                   passed, lastMut>>

\* lines 123-126 and expire, lines 141-143: an expired perpetual entry:
\* entry.fn() is called
SweepRegen(k) ==
    /\ ~crashed
    /\ bgpc = "range"
    /\ k \in Unvisited
    /\ Expired(entries[k].expiry, n)
    /\ entries[k].perpetual
    /\ visited' = visited \cup {k}
    /\ cur' = [k |-> k, v |-> entries[k]]
    /\ bgpc' = "exp_gen"
    /\ ret' = NoRet
    /\ UNCHANGED <<now, tickC, mutex, entries, allocs, genCount, pc, loc, n, nv,
                   crashed, passed, lastMut>>

\* expire, lines 143-146: fn returns nv; c.Lock() is requested
ExpireGen ==
    /\ ~crashed
    /\ bgpc = "exp_gen"
    /\ LET g == cur.v.fn
       IN /\ genCount' = [genCount EXCEPT ![g] = @ + 1]
          /\ nv' = GenValue(g, genCount[g] + 1)
    /\ bgpc' = "exp_lock"
    /\ ret' = NoRet
    /\ UNCHANGED <<now, tickC, mutex, entries, allocs, pc, loc, n, visited, cur,
                   crashed, passed, lastMut>>

\* line 129: the loop is over; c.Unlock(), fatal on a mutex that is not locked
SweepUnlock ==
    /\ ~crashed
    /\ bgpc = "range"
    /\ Unvisited = {}
    /\ IF mutex = NoOne
       THEN crashed' = TRUE /\ UNCHANGED <<mutex, bgvars>>
       ELSE /\ mutex' = NoOne
            /\ bgpc' = "select"
            /\ visited' = {}
            /\ n' = 0
            /\ UNCHANGED <<cur, nv, crashed>>
    /\ ret' = NoRet
    /\ UNCHANGED <<now, tickC, entries, allocs, genCount, pc, loc, passed, lastMut>>

\* lines 130-132: the value Free sends is received; c.ticker.Stop(); return
BgQuit(t) ==
    /\ ~crashed
    /\ bgpc = "select"
    /\ pc[t] = "free_send"
    /\ bgpc' = "stopped"
    /\ Return(t)
    /\ ret' = NoRet
    /\ UNCHANGED <<now, tickC, mutex, entries, allocs, genCount, n, visited, cur,
                   nv, crashed, passed, lastMut>>

\* ---------------------------------------------------------------- the system
CallerStep(t) ==
    \/ Acquire(t)
    \/ StoreWrite(t)
    \/ StorePerpetualGen(t)
    \/ StorePerpetualWrite(t)
    \/ DeleteMap(t)
    \/ GetLookup(t)
    \/ GetReturn(t)

BgStep ==
    \/ BgTick
    \/ BgLock
    \/ \E k \in Keys : SweepSkip(k) \/ SweepEvict(k) \/ SweepRegen(k)
    \/ ExpireGen
    \/ SweepUnlock
    \/ \E t \in Callers : BgQuit(t)

Next ==
    \/ \E t \in Callers, k \in Keys, v \in Lits, d \in Durations : Store(t, k, v, d)
    \/ \E t \in Callers, k \in Keys, g \in Gens, d \in Periods : StorePerpetual(t, k, g, d)
    \/ \E t \in Callers, k \in Keys : Delete(t, k)
    \/ \E t \in Callers, k \in Keys : Get(t, k)
    \/ \E t \in Callers : Free(t)
    \/ \E t \in Callers : CallerStep(t)
    \/ BgStep
    \/ Tick

Spec == Init /\ [][Next]_vars

\* Scheduling: time passes; a goroutine that can run does; a generator that
\* was called returns; sync.Mutex hands the lock to a goroutine that keeps
\* waiting for it (starvation mode), hence strong fairness for c.Lock()
CallerRun(t) ==
    \/ StoreWrite(t)
    \/ StorePerpetualGen(t)
    \/ StorePerpetualWrite(t)
    \/ DeleteMap(t)
    \/ GetLookup(t)
    \/ GetReturn(t)

BgRun ==
    \/ BgTick
    \/ \E k \in Keys : SweepSkip(k) \/ SweepEvict(k) \/ SweepRegen(k)
    \/ ExpireGen
    \/ SweepUnlock
    \/ \E t \in Callers : BgQuit(t)

FairSpec ==
    /\ Spec
    /\ WF_vars(Tick)
    /\ \A t \in Callers : WF_vars(CallerRun(t)) /\ SF_vars(Acquire(t))
    /\ WF_vars(BgRun)
    /\ SF_vars(BgLock)

\* ---------------------------------------------------------------- claims
\* the values a generator has produced so far
Generated == {GenValue(g, i) : g \in Gens, i \in 1..(MaxAlloc + MaxTime + 1)}

GotReturn == ret.t # NoOne

\* C1: a Get of a key that was never passed to Store or StorePerpetual returns
\* nil, whatever was done to other keys and whatever the sweep did.
C1_NeverStoredIsAbsent ==
    (GotReturn /\ ret.key \notin passed) => ret.result = Nil

\* C1 witness: such a Get returned while the other key holds an entry and the
\* clock has ticked.
C1_Witness ==
    /\ GotReturn
    /\ ret.key \notin passed
    /\ \E k \in Keys \ {ret.key} : entries[k].id # 0
    /\ now > 0

\* C2: a Get whose lookup finds that the last caller mutation of its key was a
\* Store(k, v, d), with no other mutation of k under way and the clock still
\* before that entry's expiry (so d > 0), returns exactly v.
C2_FreshStoreIsReturned ==
    (GotReturn /\ ret.ctx.kind = "store" /\ ret.ctx.fresh) => ret.result = ret.ctx.want

\* C2 witness: such a Get returned v after the clock has ticked, so a sweep may
\* have run over the entry.
C2_Witness ==
    /\ GotReturn
    /\ ret.ctx.kind = "store"
    /\ ret.ctx.fresh
    /\ ret.result \in Lits
    /\ now > 0

\* C4: a Get whose lookup finds that the last caller mutation of its key was a
\* StorePerpetual(k, gen, d), with no other mutation of k under way, and that
\* reads the entry before any regeneration, returns the value the entry was
\* inserted with, and that value is one gen produced.
C4_PerpetualFirstValue ==
    (GotReturn /\ ret.ctx.kind = "sp" /\ ret.regens = 0)
        => (ret.result = ret.ctx.want /\ ret.result \in Generated)

\* C4 witness: such a Get returned a generated value.
C4_Witness ==
    /\ GotReturn
    /\ ret.ctx.kind = "sp"
    /\ ret.regens = 0
    /\ ret.result \in Generated

\* C6: once a caller's Delete(k) has taken effect and until k is stored again,
\* a Get of k returns nil, whatever kind of entry was removed, and no sweep
\* calls a generator for k; a Delete of a key with no entry leaves the map as
\* it was.
C6_DeleteTakesEffect ==
    /\ []((GotReturn /\ ret.ctx.kind = "delete") => ret.result = Nil)
    /\ [][/\ (bgpc # "exp_gen" /\ bgpc' = "exp_gen")
                => lastMut[cur'.k].kind # "delete"
          /\ \A t \in Callers :
                (pc[t] = "delete" /\ pc'[t] = "idle" /\ entries[loc[t].key].id = 0)
                    => entries' = entries]_vars

\* C6 witness: a Get returned nil for a key whose perpetual entry a Delete had
\* removed, after the clock has ticked.
C6_Witness ==
    /\ GotReturn
    /\ ret.ctx.kind = "delete"
    /\ ret.ctx.want \in Generated
    /\ ret.result = Nil
    /\ now > 0

\* C7: a Get of a key whose last caller mutation was a StorePerpetual never
\* returns nil but a value the generator produced; and when it returns while
\* the sweep is inside the generator call for that key, it returns the value
\* the entry had when the sweep picked it up (the old value).
C7_PerpetualNeverMissed ==
    (GotReturn /\ ret.ctx.kind = "sp")
        => /\ ret.result # Nil
           /\ ret.result \in Generated
           /\ (bgpc = "exp_gen" /\ cur.k = ret.key) => ret.result = cur.v.value

\* C7 witness: a Get of the perpetual entry's key returned while the sweep's
\* generator call for that key was running.
C7_Witness ==
    /\ GotReturn
    /\ ret.ctx.kind = "sp"
    /\ bgpc = "exp_gen"
    /\ cur.k = ret.key

\* C3: under FairSpec, an entry stored by Store that has reached its expiry,
\* with a tick still to come and the goroutine not stopped, is eventually gone
\* from the map (or the goroutine is stopped). Runs in which the runtime aborts
\* the program on Delete's data race are left aside.
C3_EvictedAfterExpiry ==
    \A k \in Keys, i \in 1..MaxAlloc :
        (/\ entries[k].id = i
         /\ ~entries[k].perpetual
         /\ entries[k].expiry <= now
         /\ now < MaxTime
         /\ bgpc # "stopped")
            ~> (entries[k].id # i \/ bgpc = "stopped" \/ crashed)

\* C5: under FairSpec, a perpetual entry that has reached its expiry, with a
\* tick still to come and the goroutine not stopped, eventually holds a fresh
\* value of its generator (or is deleted or overwritten, or the goroutine is
\* stopped). Runs in which the runtime aborts the program on Delete's data race
\* are left aside.
C5_RegeneratedAfterExpiry ==
    \A k \in Keys, v \in Generated :
        (/\ entries[k].perpetual
         /\ entries[k].value = v
         /\ entries[k].expiry <= now
         /\ now < MaxTime
         /\ bgpc # "stopped")
            ~> (entries[k].value # v \/ bgpc = "stopped" \/ crashed)

\* C8: while the sweep is inside the generator call of an expired perpetual
\* entry, the goroutine does not hold the mutex, so a Get can lock it.
C8_GeneratorOutsideLock ==
    bgpc = "exp_gen" => mutex # Bg

\* C9: a caller's Delete changes the map only while that caller holds the
\* mutex, so never while the sweep holds it.
C9_DeleteUnderLock ==
    [][\A t \in Callers :
          (pc[t] = "delete" /\ entries' # entries) => mutex = t]_vars

\* C10: under FairSpec, every Store, StorePerpetual, Get and Delete that was
\* called returns, and every sweep that started ends with the mutex released.
\* Runs in which the runtime aborts the program on Delete's data race are left
\* aside.
C10_NoOperationBlocks ==
    /\ \A t \in Callers :
          (pc[t] \notin {"idle", "free_send"}) ~> (pc[t] = "idle" \/ crashed)
    /\ (bgpc \in {"lock", "range", "exp_gen", "exp_lock"})
           ~> ((bgpc \in {"select", "stopped"} /\ mutex # Bg) \/ crashed)

\* C11: under FairSpec, once Free has been called (it is called at most once)
\* the goroutine eventually receives the value sent on quit and stops, and the
\* Free call returns, whatever the map holds and whatever the sweep was doing.
\* Runs in which the runtime aborts the program on Delete's data race are left
\* aside.
C11_FreeTerminates ==
    \A t \in Callers :
        (pc[t] = "free_send") ~> ((pc[t] = "idle" /\ bgpc = "stopped") \/ crashed)

\* C19: no goroutine waits in c.Lock() for the mutex while it is itself the one
\* that locked it: not a caller, and not the sweep while it handles an expired
\* entry.
C19_NoRelockByHolder ==
    /\ \A t \in Callers : pc[t] \in {"store_lock", "sp_lock", "get_lock"} => mutex # t
    /\ bgpc \in {"lock", "exp_lock"} => mutex # Bg

\* C12: once the goroutine has received quit it stays stopped: from then on no
\* sweep starts, the map changes only where a caller's Store, StorePerpetual or
\* Delete writes it, a generator is called only by StorePerpetual, and a Get
\* returns what the map holds under its key, expired or not.
C12_StoppedIsTerminal ==
    [][bgpc = "stopped" =>
          /\ bgpc' = "stopped"
          /\ \A k \in Keys :
                entries'[k] # entries[k] =>
                    \E t \in Callers : /\ loc[t].key = k
                                       /\ pc[t] \in {"store_write", "sp_write", "delete"}
          /\ genCount' # genCount => \E t \in Callers : pc[t] = "sp_gen"
          /\ ret'.t # NoOne => ret'.result = GetResult(entries[ret'.key])]_vars

\* C12 witness: with the goroutine stopped, a Get returned the value of a Store
\* entry that had reached its expiry when the Get looked it up.
C12_Witness ==
    /\ bgpc = "stopped"
    /\ GotReturn
    /\ ret.ctx.kind = "store"
    /\ ~ret.ctx.fresh
    /\ ret.result \in Lits
    /\ now > 0

\* C13: every entry in the map is perpetual exactly when it has a generator;
\* the entry a Store inserted is not perpetual and has no generator and no
\* lifetime, the entry a StorePerpetual inserted is perpetual and has the
\* generator and the lifetime that were passed; and no step changes the
\* perpetual flag, generator or lifetime of an entry that stays in its slot.
C13_PerpetualIffGenerator ==
    /\ [](\A k \in Keys :
            entries[k].id # 0 =>
                /\ entries[k].perpetual <=> (entries[k].fn \in Gens)
                /\ ~entries[k].perpetual => (entries[k].fn = NoFn /\ entries[k].lifetime = 0)
                /\ lastMut[k].kind \in {"store", "sp"}
                /\ lastMut[k].kind = "store" => ~entries[k].perpetual
                /\ lastMut[k].kind = "sp" =>
                      (entries[k].perpetual /\ entries[k].lifetime = lastMut[k].lifetime))
    /\ [][\A k \in Keys :
            (entries[k].id # 0 /\ entries'[k].id = entries[k].id) =>
                /\ entries'[k].perpetual = entries[k].perpetual
                /\ entries'[k].fn = entries[k].fn
                /\ entries'[k].lifetime = entries[k].lifetime]_vars

\* C13 witness: the map holds an entry of each kind while the sweep is handling
\* the expired perpetual one.
C13_Witness ==
    /\ bgpc = "exp_lock"
    /\ \E k1 \in Keys, k2 \in Keys :
          /\ entries[k1].perpetual
          /\ cur.k = k1
          /\ KindOf(entries[k2]) = "store"

\* C14: a Store or StorePerpetual on a key that holds an entry replaces it
\* entirely: the slot then holds an entry with only what the call was given
\* (Store: not perpetual, the value passed, no generator, no lifetime;
\* StorePerpetual: perpetual, a generated value, the lifetime passed), the
\* sweep calls a generator only for a key whose last insertion was a
\* StorePerpetual and removes only a key whose last insertion was a Store; and
\* under FairSpec the Store entry that replaced a perpetual one is removed
\* after its expiry, and the perpetual entry that replaced a Store entry is
\* regenerated after its expiry. Runs in which the runtime aborts the program
\* on Delete's data race are left aside.
C14_OverwriteReplaces ==
    /\ [][/\ \A t \in Callers :
                (pc[t] = "store_write" /\ pc'[t] = "idle" /\ entries[loc[t].key].id # 0) =>
                    /\ ~entries'[loc[t].key].perpetual
                    /\ entries'[loc[t].key].value = loc[t].arg
                    /\ entries'[loc[t].key].fn = NoFn
                    /\ entries'[loc[t].key].lifetime = 0
                    /\ entries'[loc[t].key].expiry = loc[t].t0 + loc[t].d
          /\ \A t \in Callers :
                (pc[t] = "sp_write" /\ pc'[t] = "idle" /\ entries[loc[t].key].id # 0) =>
                    /\ entries'[loc[t].key].perpetual
                    /\ entries'[loc[t].key].value \in Generated
                    /\ entries'[loc[t].key].fn \in Gens
                    /\ entries'[loc[t].key].lifetime = loc[t].d
                    /\ entries'[loc[t].key].expiry = loc[t].t0 + loc[t].d
          /\ (bgpc = "range" /\ bgpc' = "exp_gen") => lastMut[cur'.k].kind = "sp"
          /\ \A k \in Keys :
                (/\ bgpc = "range"
                 /\ entries[k].id # 0
                 /\ entries'[k].id = 0
                 /\ \A t \in Callers : pc[t] # "delete") => lastMut[k].kind = "store"]_vars
    /\ \A k \in Keys :
          (/\ lastMut[k].kind = "store"
           /\ lastMut[k].over = "sp"
           /\ entries[k].id # 0
           /\ entries[k].expiry <= now
           /\ now < MaxTime
           /\ bgpc # "stopped")
              ~> (entries[k].id = 0 \/ lastMut[k].over # "sp" \/ bgpc = "stopped" \/ crashed)
    /\ \A k \in Keys :
          (/\ lastMut[k].kind = "sp"
           /\ lastMut[k].over = "store"
           /\ entries[k].expiry <= now
           /\ now < MaxTime
           /\ bgpc # "stopped")
              ~> (entries[k].regens > 0 \/ lastMut[k].over # "store"
                      \/ bgpc = "stopped" \/ crashed)

\* C15: while a sweep holds the mutex, with n the clock it read at its start:
\* an entry whose expiry is later than n stays as it is (unless a caller's
\* Delete removes it), an entry leaves the map only when its expiry is at most
\* n and it is not perpetual, and a perpetual entry stays under its key; and
\* under FairSpec the sweep removes every entry that is not perpetual and has
\* an expiry of at most n. Runs in which the runtime aborts the program on
\* Delete's data race are left aside.
C15_SweepFrame ==
    /\ [][(bgpc \in {"range", "exp_gen", "exp_lock"}) =>
            \A k \in Keys :
                (entries[k].id # 0 /\ \A t \in Callers : pc[t] # "delete") =>
                    /\ entries[k].expiry > n => entries'[k] = entries[k]
                    /\ entries'[k].id = 0 => (entries[k].expiry <= n /\ ~entries[k].perpetual)
                    /\ entries[k].perpetual => entries'[k].id = entries[k].id]_vars
    /\ \A k \in Keys :
          (/\ bgpc \in {"range", "exp_gen", "exp_lock"}
           /\ KindOf(entries[k]) = "store"
           /\ entries[k].expiry <= n)
              ~> (entries[k].id = 0 \/ crashed)

C17_NonPositiveLifetime ==
    /\ []((GotReturn /\ ret.ctx.kind = "store" /\ ret.ctx.lifetime <= 0)
            => ret.result \in {ret.ctx.want, Nil})
    /\ [][/\ \A t \in Callers :
                (pc[t] = "store_write" /\ pc'[t] = "idle" /\ loc[t].d <= 0) =>
                    /\ entries'[loc[t].key].id # 0
                    /\ entries'[loc[t].key].value = loc[t].arg
          /\ \A k \in Keys :
                (/\ lastMut[k].kind = "store"
                 /\ lastMut[k].lifetime <= 0
                 /\ entries[k].id # 0
                 /\ entries'[k].id = 0) =>
                    (bgpc = "range" \/ \E t \in Callers : pc[t] = "delete")]_vars
    /\ \A k \in Keys :
          (lastMut[k].kind = "store" /\ lastMut[k].lifetime <= 0 /\ lastMut[k].started)
              ~> (entries[k].id = 0 \/ ~lastMut[k].started \/ crashed)

C20_ExpiryFromCallTime ==
    /\ [][/\ \A t \in Callers :
                (pc[t] = "sp_write" /\ pc'[t] = "idle") =>
                    /\ entries'[loc[t].key].expiry = loc[t].t0 + loc[t].d
                    /\ (now - loc[t].t0 >= loc[t].d) => entries'[loc[t].key].expiry <= now
          /\ \A k \in Keys :
                (/\ bgpc = "range"
                 /\ lastMut[k].kind = "sp"
                 /\ lastMut[k].late
                 /\ lastMut[k].started
                 /\ entries[k].regens = 0
                 /\ k \notin visited
                 /\ k \in visited') => (bgpc' = "exp_gen" /\ cur'.k = k)]_vars
    /\ \A k \in Keys :
          (/\ lastMut[k].kind = "sp"
           /\ lastMut[k].late
           /\ lastMut[k].started
           /\ entries[k].regens = 0)
              ~> \/ (bgpc \in {"exp_gen", "exp_lock"} /\ cur.k = k)
                 \/ ~lastMut[k].started
                 \/ crashed

====
